---------------------------- MODULE Spec2Model ----------------------------
(***************************************************************************)
(* Model of SiPM.py: the Monte-Carlo acceptance Simulator, the PosFit      *)
(* likelihood and the Reconstruction driver.                               *)
(*                                                                         *)
(* Sensors are objects on a heap and are referred to by reference, so that *)
(* aliasing between a Geometry and the Simulator's copy of it is visible.  *)
(* Floating point values are modelled as exact rationals together with the *)
(* IEEE special values nan / +inf / -inf that numpy produces on a division *)
(* by zero or a logarithm of zero.  Square roots and logarithms are taken  *)
(* in fixed point (ISqrt, LnMilli).                                        *)
(***************************************************************************)
EXTENDS Integers, Sequences, FiniteSets, TLC

(***************************************************************************)
(* Bounds of the model.                                                    *)
(***************************************************************************)
MaxSensors == 2
MaxTrials == 2
MaxCount == 1
MaxEvents == 1

(***************************************************************************)
(* numpy float64 values: exact rationals n/d (d > 0, lowest terms) and the *)
(* special values.                                                         *)
(***************************************************************************)
Abs(i) == IF i < 0 THEN -i ELSE i

RECURSIVE GCD(_, _)
GCD(a, b) == IF b = 0 THEN a ELSE GCD(b, a % b)

Rat(n, d) ==
    LET g == GCD(Abs(n), Abs(d))
        s == IF d < 0 THEN -1 ELSE 1
    IN  [k |-> "num", n |-> (s * n) \div g, d |-> (s * d) \div g]

Num(i) == [k |-> "num", n |-> i, d |-> 1]
NaN == [k |-> "nan", n |-> 0, d |-> 1]
PosInf == [k |-> "inf", n |-> 1, d |-> 1]
NegInf == [k |-> "inf", n |-> -1, d |-> 1]

IsNum(a) == a.k = "num"
IsNaN(a) == a.k = "nan"
Sgn(a) == IF a.n > 0 THEN 1 ELSE IF a.n < 0 THEN -1 ELSE 0
Signed(s) == IF s > 0 THEN PosInf ELSE NegInf

FNeg(a) == [a EXCEPT !.n = -a.n]

FAdd(a, b) ==
    IF IsNaN(a) \/ IsNaN(b) THEN NaN
    ELSE IF IsNum(a) /\ IsNum(b) THEN Rat(a.n * b.d + b.n * a.d, a.d * b.d)
    ELSE IF IsNum(a) THEN b
    ELSE IF IsNum(b) THEN a
    ELSE IF a.n = b.n THEN a ELSE NaN

FSub(a, b) == FAdd(a, FNeg(b))

FMul(a, b) ==
    IF IsNaN(a) \/ IsNaN(b) THEN NaN
    ELSE IF IsNum(a) /\ IsNum(b) THEN Rat(a.n * b.n, a.d * b.d)
    ELSE IF Sgn(a) = 0 \/ Sgn(b) = 0 THEN NaN
    ELSE Signed(Sgn(a) * Sgn(b))

\* numpy true division: x/0 is +-inf, 0/0 is nan (a RuntimeWarning, no exception)
FDiv(a, b) ==
    IF IsNaN(a) \/ IsNaN(b) THEN NaN
    ELSE IF IsNum(a) /\ IsNum(b) THEN
        IF b.n = 0 THEN (IF a.n = 0 THEN NaN ELSE Signed(Sgn(a)))
        ELSE Rat(a.n * b.d, a.d * b.n)
    ELSE IF IsNum(b) THEN Signed(Sgn(a) * (IF Sgn(b) < 0 THEN -1 ELSE 1))
    ELSE IF IsNum(a) THEN Num(0)
    ELSE NaN

\* a < b; every comparison with nan is False
FLt(a, b) ==
    IF IsNaN(a) \/ IsNaN(b) THEN FALSE
    ELSE IF IsNum(a) /\ IsNum(b) THEN a.n * b.d < b.n * a.d
    ELSE IF IsNum(a) THEN Sgn(b) > 0
    ELSE IF IsNum(b) THEN Sgn(a) < 0
    ELSE Sgn(a) < Sgn(b)

FAbs(a) == IF IsNaN(a) THEN NaN ELSE [a EXCEPT !.n = Abs(a.n)]

\* not strictly positive: zero, negative, -inf or nan
NonPositive(a) == ~FLt(Num(0), a)

\* floor of the square root (Newton's iteration from above)
RECURSIVE ISqrtFrom(_, _)
ISqrtFrom(r, i) ==
    LET y == (r + i \div r) \div 2
    IN  IF y >= r THEN r ELSE ISqrtFrom(y, i)
ISqrt(i) == IF i <= 0 THEN 0 ELSE ISqrtFrom(i, i)

\* np.sqrt of a non-negative rational
FSqrt(a) ==
    IF ~IsNum(a) THEN a
    ELSE IF a.n < 0 THEN NaN
    ELSE Rat(ISqrt(a.n * a.d), a.d)

\* 1000 * ln(i) for an integer i >= 1, from the logarithms of the small primes
RECURSIVE LnMilli(_)
LnMilli(i) ==
    IF i <= 1 THEN 0
    ELSE IF i % 2 = 0 THEN 693 + LnMilli(i \div 2)
    ELSE IF i % 3 = 0 THEN 1099 + LnMilli(i \div 3)
    ELSE IF i % 5 = 0 THEN 1609 + LnMilli(i \div 5)
    ELSE IF i % 7 = 0 THEN 1946 + LnMilli(i \div 7)
    ELSE LnMilli(i - 1) + (1000 \div i)

\* np.log: log(0) = -inf, log(negative) = nan
FLog(a) ==
    IF IsNaN(a) THEN NaN
    ELSE IF ~IsNum(a) THEN (IF Sgn(a) > 0 THEN PosInf ELSE NaN)
    ELSE IF a.n < 0 THEN NaN
    ELSE IF a.n = 0 THEN NegInf
    ELSE Rat(LnMilli(a.n) - LnMilli(a.d), 1000)

RECURSIVE Factorial(_)
Factorial(i) == IF i <= 1 THEN 1 ELSE i * Factorial(i - 1)

\* np.dot and np.linalg.norm of vectors of three floats
FDot(u, v) == FAdd(FAdd(FMul(u[1], v[1]), FMul(u[2], v[2])), FMul(u[3], v[3]))
Norm(v) == FSqrt(FDot(v, v))

(***************************************************************************)
(* Configuration the model is run on: one Geometry (GeoParameters) with a  *)
(* plane at z_plane and a cylinder of radius r_cylinder, the sensors the   *)
(* caller may construct, the source positions and the photon directions    *)
(* generate_uv may draw.  A direction stands for every positive multiple   *)
(* of itself: the intersection points and the signs of the path lengths do *)
(* not depend on the length of tdir.                                       *)
(***************************************************************************)
z_plane == 4
r_cylinder == 3
r_sipm == 1

PLANE == "plane"
CYLINDER == "cylinder"
BADTYPE == "sphere"

SensorSpecs ==
    { [type |-> PLANE, position |-> <<0, 0, 4>>, qeff |-> Rat(1, 2)],
      [type |-> CYLINDER, position |-> <<3, 0, 0>>, qeff |-> Num(1)],
      [type |-> BADTYPE, position |-> <<0, 0, 0>>, qeff |-> Num(1)] }

Sources == { <<0, 0, 0>>, <<4, 0, 0>> }

Directions == { <<0, 0, 1>>, <<0, 0, -1>>, <<1, 0, 0>> }

NoError == "none"

(***************************************************************************)
(* class SiPM                                                              *)
(***************************************************************************)
\* the normal vector is v / d; the attribute does not exist (set = FALSE) when
\* the type is neither plane nor cylinder
Rhat(type, position) ==
    IF type = PLANE THEN [set |-> TRUE, v |-> <<0, 0, -1>>, d |-> 1]
    ELSE IF type = CYLINDER THEN
        [set |-> TRUE, v |-> <<-position[1], -position[2], 0>>,
         d |-> ISqrt(position[1] * position[1] + position[2] * position[2])]
    ELSE [set |-> FALSE, v |-> <<0, 0, 0>>, d |-> 1]

\* SiPM.__init__: a wrong type is printed and the object is built all the same
SiPMInitReports(type) == type \notin {PLANE, CYLINDER}

SiPMInit(type, position, qeff) ==
    [type |-> type, x |-> position, rhat |-> Rhat(type, position),
     nhit |-> 0, hit_probability |-> Num(0), qe |-> qeff]

(***************************************************************************)
(* State                                                                   *)
(***************************************************************************)
VARIABLES
    heap,       \* the SiPM objects, by reference (index)
    geo,        \* the caller's GeoParameters: sipms, a list of references
    sim,        \* the Simulator: made, n_mc, x0, geo (its copy: a list of references)
    rec,        \* the Reconstruction: fdata, df_rec, i_event, n_uv; method is the
                \* method argument of the call in progress or last made
    pc,         \* "build", "idle", "emulate" (inside the loop of emulate_events)
    err,        \* the exception that ended the program, or NoError
    printed,    \* the ERROR messages printed by the last operation
    trials,     \* the directions drawn by the last generate_events
    geo0,       \* the caller's Geometry when the Simulator was constructed
    acc0,       \* the Simulator's sensors after the last generate_events
    call        \* the last call of reconstruct_position: its method, the counts
                \* it read, the minimizer invocations it made, whether it returned

vars == <<heap, geo, sim, rec, pc, err, printed, trials, geo0, acc0, call>>

Objects(refs) == [i \in 1..Len(refs) |-> heap[refs[i]]]

NoFit == [xr |-> Num(0), yr |-> Num(0), I |-> Num(0), status |-> 0,
          fval |-> Num(0), chi2 |-> Num(0)]

NoCall == [method |-> "", n |-> <<>>, mcalls |-> <<>>, returned |-> FALSE, nonpos |-> FALSE]

Init ==
    /\ heap = <<>>
    /\ geo = [sipms |-> <<>>]
    /\ sim = [made |-> FALSE, n_mc |-> 0, x0 |-> <<0, 0, 0>>, geo |-> <<>>]
    /\ rec = [made |-> FALSE, method |-> "", fdata |-> NoFit, df_rec |-> <<>>,
              i_event |-> 0, n_event |-> 0, n_uv |-> 0, elog |-> <<>>, done |-> FALSE]
    /\ pc = "build"
    /\ err = NoError
    /\ printed = {}
    /\ trials = <<>>
    /\ geo0 = <<>>
    /\ acc0 = <<>>
    /\ call = NoCall

(***************************************************************************)
(* GeoParameters.add_sipm(SiPM(type, position, qeff))                      *)
(***************************************************************************)
AddSipm(type, position, qeff) ==
    /\ pc = "build"
    /\ Len(geo.sipms) < MaxSensors
    /\ heap' = Append(heap, SiPMInit(type, position, qeff))
    /\ geo' = [geo EXCEPT !.sipms = Append(@, Len(heap) + 1)]
    /\ printed' = IF SiPMInitReports(type) THEN {"SiPM::__init__"} ELSE {}
    /\ UNCHANGED <<sim, rec, pc, err, trials, geo0, acc0, call>>

(***************************************************************************)
(* class Simulator                                                         *)
(***************************************************************************)
\* a copy of the list only: the new list holds the caller's sensor objects
ShallowCopy(h, refs) == [heap |-> h, sipms |-> refs]

\* copy.deepcopy(geo): every sensor of the list is copied to a new object
DeepCopy(h, refs) ==
    [heap |-> h \o [i \in 1..Len(refs) |-> h[refs[i]]],
     sipms |-> [i \in 1..Len(refs) |-> Len(h) + i]]

\* Simulator.__init__ followed by Reconstruction.__init__(sim), which shares sim.geo
NewSimulator(uv_position, n_mc) ==
    /\ pc = "build"
    /\ LET c == DeepCopy(heap, geo.sipms)
       IN  /\ heap' = c.heap
           /\ sim' = [made |-> TRUE, n_mc |-> n_mc, x0 |-> uv_position, geo |-> c.sipms]
           /\ acc0' = [i \in 1..Len(c.sipms) |-> c.heap[c.sipms[i]]]
    /\ rec' = [rec EXCEPT !.made = TRUE]
    /\ geo0' = Objects(geo.sipms)
    /\ pc' = "idle"
    /\ printed' = {}
    /\ UNCHANGED <<geo, err, trials, call>>

\* intersect_with_plane: the path length to the plane, clamped at 0
IntersectWithPlane(x0, tdir) ==
    LET s == FDiv(Num(z_plane - x0[3]), Num(tdir[3]))
    IN  IF FLt(s, Num(0)) THEN Num(0) ELSE s

\* intersect_with_cylinder: the larger root of A s^2 + B s + C = 0, or 0
IntersectWithCylinder(x0, tdir) ==
    LET A == tdir[1] * tdir[1] + tdir[2] * tdir[2]
        B == 2 * (x0[1] * tdir[1] + x0[2] * tdir[2])
        C == x0[1] * x0[1] + x0[2] * x0[2] - r_cylinder * r_cylinder
        discriminant == B * B - 4 * A * C
        s0 == FDiv(FAdd(Num(-B), FSqrt(Num(discriminant))), Num(2 * A))
        s1 == FDiv(FSub(Num(-B), FSqrt(Num(discriminant))), Num(2 * A))
    IN  IF discriminant >= 0
        THEN (IF FLt(s1, s0) THEN s0 ELSE s1)
        ELSE Num(0)

\* x0 + s * tdir
XInt(x0, s, tdir) == [i \in 1..3 |-> FAdd(Num(x0[i]), FMul(s, Num(tdir[i])))]

\* np.linalg.norm(x - location) < bound
NormLess(x, location, bound) ==
    FLt(Norm([i \in 1..3 |-> FSub(x[i], Num(location[i]))]), Num(bound))

\* hit_sipm: is the sensor hit by the photon with direction tdir from x0
HitSipm(sipm, x0, tdir) ==
    LET xint_plane == XInt(x0, IntersectWithPlane(x0, tdir), tdir)
        xint_cylinder == XInt(x0, IntersectWithCylinder(x0, tdir), tdir)
        x == IF sipm.type = PLANE THEN xint_plane
             ELSE IF sipm.type = CYLINDER THEN xint_cylinder
             ELSE <<Num(0), Num(0), Num(0)>>
    IN  NormLess(x, sipm.x, r_sipm)

\* the sensor as it was constructed
Kind(sipm) == [type |-> sipm.type, position |-> sipm.x, qeff |-> sipm.qe]

\* HitSipm, evaluated once for every sensor, source and direction of the
\* configuration
HitMemo ==
    [s \in SensorSpecs, x0 \in Sources, tdir \in Directions |->
        HitSipm(SiPMInit(s.type, s.position, s.qeff), x0, tdir)]

\* the hit counter of a sensor after the photons of directions ds[1..k]
RECURSIVE CountHits(_, _, _, _)
CountHits(sipm, x0, ds, k) ==
    IF k = 0 THEN 0
    ELSE CountHits(sipm, x0, ds, k - 1) + (IF HitMemo[Kind(sipm), x0, ds[k]] THEN 1 ELSE 0)

\* a run that starts from the hit counter it finds
KeepHits(nhit) == nhit

\* line 157: the hit counter a run starts from
ResetHits(nhit) == 0

\* lines 183-185: p = nhit / n_mc * qe
HitProbability(nhit, n_mc, qe) == FMul(Rat(nhit, n_mc), qe)

\* generate_events with the photon directions ds
GenerateEvents(ds) ==
    /\ pc = "idle" /\ err = NoError
    /\ Len(ds) = sim.n_mc
    /\ LET refs == {sim.geo[i] : i \in 1..Len(sim.geo)}
           nhit(r) == ResetHits(heap[r].nhit) + CountHits(heap[r], sim.x0, ds, Len(ds))
           wrong == \E r \in refs : heap[r].type \notin {PLANE, CYLINDER}
           counted == [r \in 1..Len(heap) |->
                         IF r \in refs THEN [heap[r] EXCEPT !.nhit = nhit(r)] ELSE heap[r]]
       IN  /\ printed' = IF wrong /\ sim.n_mc > 0 THEN {"Simulator::hit_sipm"} ELSE {}
           /\ IF sim.n_mc = 0 /\ refs # {}
              THEN \* nhit / n_mc of two Python ints: ZeroDivisionError
                   /\ heap' = counted
                   /\ err' = "ZeroDivisionError"
                   /\ UNCHANGED acc0
              ELSE /\ heap' = [r \in 1..Len(heap) |->
                                IF r \in refs
                                THEN [counted[r] EXCEPT !.hit_probability =
                                          HitProbability(counted[r].nhit, sim.n_mc, counted[r].qe)]
                                ELSE heap[r]]
                   /\ err' = NoError
                   /\ acc0' = [i \in 1..Len(sim.geo) |-> heap'[sim.geo[i]]]
    /\ trials' = ds
    /\ UNCHANGED <<geo, sim, rec, pc, geo0, call>>

(***************************************************************************)
(* class PosFit: the likelihood of the observed counts n of the sensors    *)
(***************************************************************************)
COG == "COG"
CHI2 == "CHI2"
LNLIKE == "LNLIKE"
BADMETHOD == "LSQ"

\* PosFit.nexp, from delta = xs[i] - xfit and its norm dist
NexpFrom(sipm, rate0, delta, dist) ==
    FMul(FMul(FDiv(rate0, FMul(dist, dist)),
              FAbs(FDiv(FDot(delta, [i \in 1..3 |-> FDiv(Num(sipm.rhat.v[i]), Num(sipm.rhat.d))]),
                        dist))),
         sipm.qe)

NexpDelta(sipm, rate0, delta) == NexpFrom(sipm, rate0, delta, Norm(delta))

\* PosFit.nexp: the expected number of photons on sensor sipm
Nexp(sipm, rate0, xpos, ypos) ==
    NexpDelta(sipm, rate0,
              <<FSub(Num(sipm.x[1]), xpos), FSub(Num(sipm.x[2]), ypos), Num(sipm.x[3])>>)

\* line 591: the chi-square term of one sensor
ChiSquareTerm(N, nexpected) ==
    LET res == FSub(Num(N), nexpected)
    IN  FDiv(FMul(res, res), nexpected)

\* lines 602-609: minus the Poisson log-probability of one sensor
PoissonTerm(N, nexpected) ==
    LET ln_nfac == FLog(Num(Factorial(N)))
        lnp == FSub(FAdd(FNeg(nexpected), FMul(Num(N), FLog(nexpected))), ln_nfac)
    IN  FNeg(lnp)

\* the guard on the expected count before it divides or enters the logarithm
\* (line 590, commented out)
ExpectedCountGuarded(nexpected) == FALSE

\* the term of one sensor under the statistic `method`
Term(method, N, nexpected) ==
    IF method = CHI2 THEN ChiSquareTerm(N, nexpected)
    ELSE IF method = LNLIKE THEN PoissonTerm(N, nexpected)
    ELSE Num(0)

(***************************************************************************)
(* The minimizer (iminuit) is a black box: an invocation of migrad returns *)
(* parameter values within the limits, the value of the objective there    *)
(* and whether the covariance is accurate.                                 *)
(***************************************************************************)
MinValues ==
    { [rate0 |-> 36, xpos |-> 0, ypos |-> 0],
      [rate0 |-> 0, xpos |-> 3, ypos |-> 0] }
MinOutcomes == [values : MinValues, has_accurate_covar : BOOLEAN]

\* line 330: the intensity recorded for the fitted rate0, rate0 * 4 pi / a_sipm
\* with a_sipm = pi * r_sipm^2
Intensity(rate0) == FDiv(FMul(Num(rate0), Num(4)), Num(r_sipm * r_sipm))

\* lines 339-341: the record fields of a rejected fit
FailedFit == [rate0 |-> Num(0), xrec |-> <<Num(-999), Num(-999), Num(-999)>>, status |-> 0]

\* the points (rate0, xpos, ypos) the likelihood is evaluated at: where the
\* minimizer ends, and the final values of an accepted and of a rejected fit
EvalPoints ==
    { <<Num(v.rate0), Num(v.xpos), Num(v.ypos)>> : v \in MinValues }
    \cup { <<Intensity(v.rate0), Num(v.xpos), Num(v.ypos)>> : v \in MinValues }
    \cup { <<FailedFit.rate0, FailedFit.xrec[1], FailedFit.xrec[2]>> }

\* Nexp and Term, evaluated once for every sensor, point and count of the
\* configuration
NexpMemo ==
    [s \in SensorSpecs, p \in EvalPoints |->
        Nexp(SiPMInit(s.type, s.position, s.qeff), p[1], p[2], p[3])]

\* a hit counter holds a Poisson sample or the hits of a simulation
MaxHits == IF MaxTrials > MaxCount THEN MaxTrials ELSE MaxCount

TermMemo ==
    [method \in {CHI2, LNLIKE, BADMETHOD}, s \in SensorSpecs, p \in EvalPoints, N \in 0..MaxHits |->
        Term(method, N, NexpMemo[s, p])]

\* PosFit.__call__ on the sensors sipms with the counts n, first k sensors
RECURSIVE SumTerms(_, _, _, _, _)
SumTerms(method, sipms, n, p, k) ==
    IF k = 0 THEN Num(0)
    ELSE FAdd(SumTerms(method, sipms, n, p, k - 1), TermMemo[method, Kind(sipms[k]), p, n[k]])

\* PosFit.__call__ at the point p = (rate0, xpos, ypos): its value, whether it
\* raised (a sensor without a normal vector: AttributeError in nexp), whether
\* it printed BAD METHOD, and whether an expected count that is not positive
\* was used as divisor or logarithm argument
PosFitCall(method, sipms, n, p) ==
    [val |-> SumTerms(method, sipms, n, p, Len(n)),
     raised |-> \E i \in 1..Len(n) : ~sipms[i].rhat.set,
     bad |-> method \notin {CHI2, LNLIKE} /\ Len(n) > 0,
     nonpos |-> /\ method \in {CHI2, LNLIKE}
                /\ \E i \in 1..Len(n) :
                      /\ NonPositive(NexpMemo[Kind(sipms[i]), p])
                      /\ ~ExpectedCountGuarded(NexpMemo[Kind(sipms[i]), p])]

\* the statistic PosFit evaluates: its own method, set at construction.  The
\* assignment self.method = "CHI2" of line 344 sets the Reconstruction's
\* attribute, not the PosFit's.
RecomputeMethod(method) == method

\* what migrad reports when it ends at the outcome o, c being the evaluation
\* of the likelihood there
MigradResult(o, c) ==
    [values |-> o.values, fval |-> c.val, has_accurate_covar |-> o.has_accurate_covar,
     raised |-> c.raised, bad |-> c.bad, nonpos |-> c.nonpos]

\* m.migrad(): the result of one invocation that ends at the outcome o
Migrad(method, sipms, n, o) ==
    MigradResult(o, PosFitCall(method, sipms, n,
                               <<Num(o.values.rate0), Num(o.values.xpos), Num(o.values.ypos)>>))

(***************************************************************************)
(* class Reconstruction                                                    *)
(***************************************************************************)
\* a sample stored in the hit counter and in the hit probability
WithSampleAsProbability(sipm, k) == [sipm EXCEPT !.nhit = k, !.hit_probability = Num(k)]

\* the value generate_hit stores in a sensor: a Poisson sample k of mean
\* nuv * hit_probability becomes the hit counter
WithSample(sipm, k) == [sipm EXCEPT !.nhit = k]

\* np.random.poisson(nexp) may return k
PoissonMay(nexp, k) == IF nexp.n = 0 THEN k = 0 ELSE k \in 0..MaxCount

\* generate_hit on the heap h with the samples ks; refs are the sensors of self.geo
GenerateHitOn(h, refs, ks) ==
    [r \in 1..Len(h) |->
        IF \E i \in 1..Len(refs) : refs[i] = r
        THEN WithSample(h[r], ks[CHOOSE i \in 1..Len(refs) : refs[i] = r])
        ELSE h[r]]

SamplesFor(h, refs, nuv) ==
    { ks \in [1..Len(refs) -> 0..MaxCount] :
        \A i \in 1..Len(refs) : PoissonMay(FMul(Num(nuv), h[refs[i]].hit_probability), ks[i]) }

\* lines 291-295: the sums xs (coordinate c) and n of the COG branch
RECURSIVE WeightedSum(_, _, _)
WeightedSum(sipms, c, k) ==
    IF k = 0 THEN 0
    ELSE WeightedSum(sipms, c, k - 1) + sipms[k].x[c] * sipms[k].nhit

RECURSIVE TotalHits(_, _)
TotalHits(sipms, k) == IF k = 0 THEN 0 ELSE TotalHits(sipms, k - 1) + sipms[k].nhit

\* line 298: the status of the COG branch
CogStatus == 1

\* the counts reconstruct_position reads from the sensors
Hits(sipms) == [i \in 1..Len(sipms) |-> sipms[i].nhit]

\* the result of reconstruct_position: the record (when it returned), the
\* counts n it read, the exception raised (or NoError), the messages printed,
\* the minimizer invocations made, and whether a likelihood evaluation used
\* an expected count that is not positive
Result(fdata, n, returned, error, msgs, mcalls, nonpos) ==
    [fdata |-> fdata, n |-> n, returned |-> returned, err |-> error,
     printed |-> msgs, mcalls |-> mcalls, nonpos |-> nonpos]

\* lines 290-298: the COG branch
CenterOfGravity(sipms, n, total) ==
    IF Len(sipms) = 0
    THEN \* [0, 0, 0] / 0 with a list: TypeError
         Result(NoFit, n, FALSE, "TypeError", {}, <<>>, FALSE)
    ELSE Result([xr |-> FDiv(Num(WeightedSum(sipms, 1, Len(sipms))), Num(total)),
                 yr |-> FDiv(Num(WeightedSum(sipms, 2, Len(sipms))), Num(total)),
                 I |-> Num(-1), status |-> CogStatus, fval |-> Num(-1), chi2 |-> Num(-1)],
                n, TRUE, NoError, {}, <<>>, FALSE)

\* lines 329-332: the record fields of an accepted fit; m1 is m_status (the
\* first migrad), m2 the state of the minimizer after the second migrad
AcceptedFit(m1, m2) ==
    [fval |-> m1.fval,
     rate0 |-> Intensity(m2.values.rate0),
     xrec |-> <<Num(m2.values.xpos), Num(m2.values.ypos), Num(0)>>,
     status |-> 1]

\* a fit accepted whatever the minimizer reports
AcceptsAlways(m1) == TRUE

\* line 325: is the result of the first migrad accepted
Accepts(m1) == m1.has_accurate_covar

\* lines 325-341: rate0, xrec, status and fval after the minimizer
FitFields(m1, m2) ==
    IF Accepts(m1) THEN AcceptedFit(m1, m2) ELSE [fval |-> Num(-1)] @@ FailedFit

\* lines 307 and 611: the messages of a model fit
Messages(method, bad) ==
    (IF method \notin {CHI2, LNLIKE} THEN {"Reconstruction::reconstruct_position"} ELSE {})
    \cup (IF bad THEN {"PosRec::BAD METHOD"} ELSE {})

\* lines 343-351: the record of a model fit, chi2 from the evaluation `again`
\* of the likelihood at the final values
FitRecord(n, m1, m2, fit, again, msgs) ==
    Result([xr |-> fit.xrec[1], yr |-> fit.xrec[2], I |-> fit.rate0,
            status |-> fit.status, fval |-> fit.fval, chi2 |-> again.val],
           n, TRUE, NoError, msgs,
           IF fit.status = 1 THEN <<m1, m2>> ELSE <<m1>>,
           m1.nonpos \/ (fit.status = 1 /\ m2.nonpos) \/ again.nonpos)

\* lines 325-351 after the first migrad m1 (and the second, m2)
AfterMigrad(method, sipms, n, m1, m2, fit) ==
    IF m1.raised
    THEN Result(NoFit, n, FALSE, "AttributeError", Messages(method, m1.bad), <<m1>>, FALSE)
    ELSE FitRecord(n, m1, m2, fit,
                   PosFitCall(RecomputeMethod(method), sipms, n,
                              <<fit.rate0, fit.xrec[1], fit.xrec[2]>>),
                   Messages(method, m1.bad))

\* lines 300-351: the model fit; m1 and m2 are the results of the first and
\* of the second invocation of the minimizer
ModelFit(method, sipms, n, m1, m2) ==
    AfterMigrad(method, sipms, n, m1, m2, FitFields(m1, m2))

\* reconstruct_position(method) on the sensors sipms (objects); o1 and o2 are
\* what the first and the second invocation of the minimizer would end at
ReconstructPosition(method, sipms, o1, o2) ==
    IF method = COG
    THEN CenterOfGravity(sipms, Hits(sipms), TotalHits(sipms, Len(sipms)))
    ELSE ModelFit(method, sipms, Hits(sipms),
                  Migrad(method, sipms, Hits(sipms), o1),
                  Migrad(method, sipms, Hits(sipms), o2))

Intensities == {10}
Methods == {COG, CHI2, LNLIKE, BADMETHOD}

\* Reconstruction.generate_hit(nuv)
GenerateHit(nuv, ks) ==
    /\ pc = "idle" /\ err = NoError
    /\ ks \in SamplesFor(heap, sim.geo, nuv)
    /\ heap' = GenerateHitOn(heap, sim.geo, ks)
    /\ printed' = {}
    /\ UNCHANGED <<geo, sim, rec, pc, err, trials, geo0, acc0, call>>

\* the outcomes the minimizer is asked for: the COG branch makes no
\* invocation, and the second migrad is made only after an accepted first one
NoOutcome == [values |-> [rate0 |-> 0, xpos |-> 0, ypos |-> 0], has_accurate_covar |-> FALSE]
FirstOutcomes(method, outcomes) == IF method = COG THEN {NoOutcome} ELSE outcomes
SecondOutcomes(o1, outcomes) == IF o1.has_accurate_covar THEN outcomes ELSE {o1}

\* lines 348-351: self.fdata and the return value r of reconstruct_position
Returns(method, r) ==
    /\ rec' = [rec EXCEPT !.method = method,
                          !.fdata = IF r.returned THEN r.fdata ELSE @]
    /\ err' = r.err
    /\ printed' = r.printed
    /\ call' = [method |-> method, n |-> r.n, mcalls |-> r.mcalls,
                returned |-> r.returned, nonpos |-> r.nonpos]

\* Reconstruction.reconstruct_position(method)
Reconstruct(method, o1, o2) ==
    /\ pc = "idle" /\ err = NoError
    /\ Returns(method, ReconstructPosition(method, Objects(sim.geo), o1, o2))
    /\ UNCHANGED <<heap, geo, sim, pc, trials, geo0, acc0>>

\* lines 360-368: emulate_events(n_uv, n_event, method=method), plot = False,
\* up to the loop
EmulateEvents(n_uv, n_event, method) ==
    /\ pc = "idle" /\ err = NoError
    /\ rec' = [rec EXCEPT !.n_uv = n_uv, !.n_event = n_event, !.method = method,
                          !.df_rec = <<>>, !.i_event = 0, !.elog = <<>>, !.done = FALSE]
    /\ pc' = "emulate"
    /\ printed' = {}
    /\ UNCHANGED <<heap, geo, sim, err, trials, geo0, acc0, call>>

\* lines 377-381: one event, generate_hit and then reconstruct_position from
\* the counts it stored; ks are the Poisson samples
EmulateOne(h1, refs, method, o1, o2) ==
    [heap |-> h1,
     r |-> ReconstructPosition(method, [i \in 1..Len(refs) |-> h1[refs[i]]], o1, o2)]

\* line 382: df_rec.append(result)
AppendRecord(df_rec, result) == Append(df_rec, result)

\* lines 377-382: the effect of one event e with the samples ks
EventDone(ks, e) ==
    /\ heap' = e.heap
    /\ err' = e.r.err
    /\ printed' = e.r.printed
    /\ call' = [method |-> rec.method, n |-> e.r.n, mcalls |-> e.r.mcalls,
                returned |-> e.r.returned, nonpos |-> e.r.nonpos]
    /\ rec' = IF e.r.returned
              THEN [rec EXCEPT !.fdata = e.r.fdata,
                               !.df_rec = AppendRecord(@, e.r.fdata),
                               !.elog = Append(@, [i_event |-> rec.i_event, sampled |-> ks]),
                               !.i_event = @ + 1]
              ELSE rec

\* lines 370-382: one turn of the loop of emulate_events
EmulateStep(ks, o1, o2) ==
    /\ pc = "emulate" /\ err = NoError
    /\ rec.i_event < rec.n_event
    /\ ks \in SamplesFor(heap, sim.geo, rec.n_uv)
    /\ EventDone(ks, EmulateOne(GenerateHitOn(heap, sim.geo, ks), sim.geo, rec.method, o1, o2))
    /\ UNCHANGED <<geo, sim, pc, trials, geo0, acc0>>

\* lines 398-400: the loop is over, emulate_events returns df_rec
EmulateReturn ==
    /\ pc = "emulate" /\ err = NoError
    /\ rec.i_event = rec.n_event
    /\ rec' = [rec EXCEPT !.done = TRUE]
    /\ pc' = "idle"
    /\ UNCHANGED <<heap, geo, sim, err, printed, trials, geo0, acc0, call>>

(***************************************************************************)
(* Specifications.  Spec runs the whole program with the minimizer ending  *)
(* at one accepted or one rejected outcome; SpecSim runs the simulation    *)
(* and generate_hit from every source with every number of photons;        *)
(* SpecFit builds plane and cylinder sensors only and lets the minimizer   *)
(* end at every outcome.                                                   *)
(***************************************************************************)
Build(specs) == \E s \in specs : AddSipm(s.type, s.position, s.qeff)

Simulate == \E k \in 0..MaxTrials : \E ds \in [1..k -> Directions] : GenerateEvents(ds)

Sample ==
    \E nuv \in Intensities : \E ks \in SamplesFor(heap, sim.geo, nuv) : GenerateHit(nuv, ks)

Fit(outcomes) ==
    \E method \in Methods : \E o1 \in FirstOutcomes(method, outcomes) :
        \E o2 \in SecondOutcomes(o1, outcomes) : Reconstruct(method, o1, o2)

Emulate(outcomes) ==
    \/ \E n_uv \in Intensities, n_event \in 0..MaxEvents, method \in Methods :
          EmulateEvents(n_uv, n_event, method)
    \/ \E ks \in SamplesFor(heap, sim.geo, rec.n_uv) :
          \E o1 \in FirstOutcomes(rec.method, outcomes) :
             \E o2 \in SecondOutcomes(o1, outcomes) : EmulateStep(ks, o1, o2)
    \/ EmulateReturn

FewOutcomes ==
    { o \in MinOutcomes : o.values.rate0 = (IF o.has_accurate_covar THEN 36 ELSE 0) }

Next ==
    \/ Build(SensorSpecs)
    \/ NewSimulator(<<0, 0, 0>>, 1)
    \/ Simulate
    \/ Sample
    \/ Fit(FewOutcomes)
    \/ Emulate(FewOutcomes)

Spec == Init /\ [][Next]_vars

NextSim ==
    \/ Build(SensorSpecs)
    \/ \E x0 \in Sources, n \in 0..MaxTrials : NewSimulator(x0, n)
    \/ Simulate
    \/ Sample

SpecSim == Init /\ [][NextSim]_vars

NextFit ==
    \/ Build({s \in SensorSpecs : s.type \in {PLANE, CYLINDER}})
    \/ NewSimulator(<<0, 0, 0>>, 1)
    \/ Simulate
    \/ Sample
    \/ Fit(MinOutcomes)

SpecFit == Init /\ [][NextFit]_vars

(***************************************************************************)
(* Properties                                                              *)
(***************************************************************************)
SimSensors == Objects(sim.geo)

\* C1: the sensors of the caller's Geometry keep the hit counter and the hit
\* probability they had when the Simulator was constructed, and the caller's
\* sensor list is unchanged, whatever the Simulator and the Reconstruction do.
C1_OriginalGeometryUntouched ==
    sim.made =>
        /\ Len(geo.sipms) = Len(geo0)
        /\ \A i \in 1..Len(geo.sipms) :
              /\ heap[geo.sipms[i]].nhit = geo0[i].nhit
              /\ heap[geo.sipms[i]].hit_probability = geo0[i].hit_probability
              /\ Kind(heap[geo.sipms[i]]) = Kind(geo0[i])

\* the Simulator's copy has accumulated hits and probabilities, and an
\* emulation has produced a record
C1_Witness ==
    /\ sim.made
    /\ rec.df_rec # <<>>
    /\ \E i \in 1..Len(sim.geo) :
          /\ SimSensors[i].nhit > 0
          /\ SimSensors[i].hit_probability # Num(0)

\* the trials of the last run whose intersection point lay within the
\* acceptance radius of the sensor
TrialHits(sipm) ==
    Cardinality({ k \in 1..Len(trials) : HitSipm(sipm, sim.x0, trials[k]) })

\* C2: after a run of generate_events with n_mc >= 1 every sensor has the
\* hit probability (hitCount / n_mc) * qe, where hitCount counts the trials
\* of that run only, so 0 <= hitCount <= n_mc.
C2_HitProbability ==
    (sim.made /\ trials # <<>>) =>
        \A i \in 1..Len(sim.geo) :
            LET hitCount == TrialHits(SimSensors[i])
            IN  /\ Len(trials) = sim.n_mc
                /\ hitCount >= 0 /\ hitCount <= sim.n_mc
                /\ acc0[i].nhit = hitCount
                /\ acc0[i].hit_probability = FMul(Rat(hitCount, sim.n_mc), SimSensors[i].qe)
                /\ SimSensors[i].hit_probability = acc0[i].hit_probability

\* a run of two trials of which one hit a sensor of efficiency 1/2, the hit
\* counter having been overwritten since
C2_Witness ==
    /\ sim.made /\ Len(trials) = 2
    /\ \E i \in 1..Len(sim.geo) :
          /\ TrialHits(SimSensors[i]) = 1
          /\ SimSensors[i].hit_probability = Rat(1, 4)
          /\ SimSensors[i].nhit # acc0[i].nhit

\* C3: a simulator with n_mc = 0 reaches no error and leaves every sensor
\* with hit probability 0.
C3_ZeroTrials ==
    (sim.made /\ sim.n_mc = 0) =>
        /\ err = NoError
        /\ \A i \in 1..Len(sim.geo) : SimSensors[i].hit_probability = Num(0)

\* the ChiSquare statistic of the counts n at (rate0, xpos, ypos), first k sensors
RECURSIVE ChiSquareAt(_, _, _, _, _, _)
ChiSquareAt(sipms, n, rate0, xpos, ypos, k) ==
    IF k = 0 THEN Num(0)
    ELSE FAdd(ChiSquareAt(sipms, n, rate0, xpos, ypos, k - 1),
              ChiSquareTerm(n[k], Nexp(sipms[k], rate0, xpos, ypos)))

\* C4: the chi2 field of the record of a model fit (method CHI2 or LNLIKE,
\* accepted or rejected) is the ChiSquare statistic of the counts at the
\* record's final (I, xr, yr).
C4_ChiSquareField ==
    (call.returned /\ call.method \in {CHI2, LNLIKE}) =>
        rec.fdata.chi2 = ChiSquareAt(SimSensors, call.n, rec.fdata.I, rec.fdata.xr,
                                     rec.fdata.yr, Len(call.n))

\* C5: when the minimizer has reported, the record has status 1 exactly if
\* the covariance is reported accurate; a fit reported inaccurate gives
\* status 0, xr and yr outside [-150, 150], I = 0 and fval = -1, and no
\* exception.
C5_StatusFollowsCovariance ==
    (call.method \notin {"", COG} /\ call.mcalls # <<>> /\ ~call.mcalls[1].raised) =>
        /\ call.returned
        /\ err = NoError
        /\ (rec.fdata.status = 1) <=> call.mcalls[1].has_accurate_covar
        /\ ~call.mcalls[1].has_accurate_covar =>
              /\ rec.fdata.status = 0
              /\ FLt(rec.fdata.xr, Num(-150)) \/ FLt(Num(150), rec.fdata.xr)
              /\ FLt(rec.fdata.yr, Num(-150)) \/ FLt(Num(150), rec.fdata.yr)
              /\ rec.fdata.I = Num(0)
              /\ rec.fdata.fval = Num(-1)

\* a rejected fit on observed counts that are not all zero
C5_Witness ==
    /\ call.method \in {CHI2, LNLIKE} /\ call.returned
    /\ call.mcalls # <<>> /\ ~call.mcalls[1].has_accurate_covar
    /\ \E i \in 1..Len(call.n) : call.n[i] > 0
    /\ rec.fdata.status = 0

\* C6: no sensor of an unsupported type enters a Geometry or has its hit
\* counter incremented, and reconstruct_position with an unsupported method
\* invokes no minimizer and produces no record.
C6_FailFast ==
    /\ \A r \in 1..Len(heap) : heap[r].type \in {PLANE, CYLINDER}
    /\ call.method \notin {"", COG, CHI2, LNLIKE} =>
          /\ call.mcalls = <<>>
          /\ ~call.returned

\* C7: no evaluation of the likelihood uses a per-sensor expected count that
\* is not strictly positive as a divisor or as the argument of the logarithm.
C7_ExpectedCountPositive == ~call.nonpos

\* C8: the COG branch returns, for every vector of observed counts, a record
\* with status 1 and fval -1 without invoking the minimizer; with a positive
\* total the recorded (xr, yr) is the count-weighted mean of the positions.
C8_Centroid ==
    call.method = COG =>
        /\ call.returned
        /\ call.mcalls = <<>>
        /\ rec.fdata.status = 1
        /\ rec.fdata.fval = Num(-1)
        /\ LET sipms == [i \in 1..Len(call.n) |-> [SimSensors[i] EXCEPT !.nhit = call.n[i]]]
               total == TotalHits(sipms, Len(sipms))
           IN  total > 0 =>
                  /\ rec.fdata.xr = Rat(WeightedSum(sipms, 1, Len(sipms)), total)
                  /\ rec.fdata.yr = Rat(WeightedSum(sipms, 2, Len(sipms)), total)

\* C9: generate_hit and reconstruct_position leave the hit probability, the
\* position, the normal vector and the efficiency of every sensor of the
\* Simulator's Geometry as they were after the last generate_events.
C9_AcceptanceUnchanged ==
    sim.made =>
        \A i \in 1..Len(sim.geo) :
            /\ SimSensors[i].hit_probability = acc0[i].hit_probability
            /\ SimSensors[i].x = acc0[i].x
            /\ SimSensors[i].rhat = acc0[i].rhat
            /\ SimSensors[i].qe = acc0[i].qe

\* a rejected fit on sampled counts that differ from the hits of the
\* simulation, the sensor having a hit probability that is not zero
C9_Witness ==
    /\ sim.made /\ call.returned
    /\ call.mcalls # <<>> /\ ~call.mcalls[1].has_accurate_covar
    /\ rec.fdata.status = 0
    /\ \E i \in 1..Len(sim.geo) :
          /\ SimSensors[i].hit_probability # Num(0)
          /\ SimSensors[i].nhit # acc0[i].nhit

\* C10: emulate_events ends by returning n_event records in event order,
\* each reconstructed from the counts sampled for that event; no event ends
\* the loop early.
C10_AllEventsRecorded ==
    /\ pc = "emulate" => err = NoError
    /\ Len(rec.df_rec) = Len(rec.elog)
    /\ \A j \in 1..Len(rec.elog) : rec.elog[j].i_event = j - 1
    /\ (pc = "emulate" /\ rec.elog # <<>>) => call.n = rec.elog[Len(rec.elog)].sampled
    /\ rec.done => Len(rec.df_rec) = rec.n_event

\* the path length generate_events uses for the surface the sensor lies on
PathLength(sipm, x0, tdir) ==
    IF sipm.type = PLANE THEN IntersectWithPlane(x0, tdir)
    ELSE IntersectWithCylinder(x0, tdir)

\* C11: a trial counts as a hit of a plane or cylinder sensor only if the
\* path length to the sensor's surface is positive (and the intersection
\* point is within r_sipm), and no path length of a trial is negative.
C11_ForwardHitsOnly ==
    (sim.made /\ trials # <<>>) =>
        \A k \in 1..Len(trials) :
            /\ ~FLt(IntersectWithPlane(sim.x0, trials[k]), Num(0))
            /\ ~FLt(IntersectWithCylinder(sim.x0, trials[k]), Num(0))
            /\ \A i \in 1..Len(sim.geo) :
                  (/\ SimSensors[i].type \in {PLANE, CYLINDER}
                   /\ HitSipm(SimSensors[i], sim.x0, trials[k]))
                  => FLt(Num(0), PathLength(SimSensors[i], sim.x0, trials[k]))

\* C12: the xr, yr, I and fval of an accepted model-fit record are those of
\* one invocation of the minimizer, and that invocation reported an accurate
\* covariance.
C12_OneMinimizerResult ==
    (call.returned /\ call.method \notin {"", COG} /\ rec.fdata.status = 1) =>
        \E j \in 1..Len(call.mcalls) :
            /\ call.mcalls[j].has_accurate_covar
            /\ rec.fdata.fval = call.mcalls[j].fval
            /\ rec.fdata.xr = Num(call.mcalls[j].values.xpos)
            /\ rec.fdata.yr = Num(call.mcalls[j].values.ypos)
            /\ rec.fdata.I = Intensity(call.mcalls[j].values.rate0)

=============================================================================
